---- MODULE Spec2Model ----
(***************************************************************************)
(* Model of the Title Generator plugin (src/main.ts).                      *)
(*                                                                         *)
(* Strings are sequences of characters; a character is a one-character     *)
(* string, except for the curly quotation marks, which are written by      *)
(* name ("ldquo", "rdquo", "lsquo", "rsquo"), and for the literal text of  *)
(* DEFAULT_PROMPT around its placeholder, which is kept as two opaque      *)
(* chunks (they hold no brace and are never split).                        *)
(***************************************************************************)
EXTENDS Integers, Sequences, FiniteSets, Bags, TLC

\* ------------------------------------------------------------------ bounds
MaxLen == 4            \* longest raw model output given to the sanitizer
MaxTmplPieces == 3     \* pieces a custom prompt is assembled from
MaxContentAtoms == 2   \* atoms a note's content is assembled from
MaxPending == 2        \* promises pending at once: pMap, generateTitle..., saveSettings

\* ------------------------------------------------------- string helpers
RECURSIVE Flatten(_)
Flatten(ss) == IF ss = <<>> THEN <<>> ELSE Head(ss) \o Flatten(Tail(ss))

SeqsUpTo(S, n) == UNION {[1..k -> S] : k \in 0..n}

\* JavaScript's \s and String.prototype.trim(), on the characters modelled
Whitespace == {" ", "\t", "\n"}

RECURSIVE DropLeading(_, _)
DropLeading(s, set) ==
    IF s # <<>> /\ Head(s) \in set THEN DropLeading(Tail(s), set) ELSE s

RECURSIVE DropTrailing(_, _)
DropTrailing(s, set) ==
    IF s # <<>> /\ s[Len(s)] \in set
    THEN DropTrailing(SubSeq(s, 1, Len(s) - 1), set)
    ELSE s

Trim(s) == DropTrailing(DropLeading(s, Whitespace), Whitespace)

\* ------------------------------------------------------- Title Sanitizer
\* the character class of stripSurroundingQuotes: [\s"'“”‘’]
StripChars == Whitespace \cup {"\"", "'", "ldquo", "rdquo", "lsquo", "rsquo"}

\* the character class of removeInvalidFileNameChars: [<>:"/\\|?*]
InvalidFileNameChars == {"<", ">", ":", "\"", "/", "\\", "|", "?", "*"}

\* s.replace(/^[\s"'“”‘’]+|[\s"'“”‘’]+$/g, '')
stripSurroundingQuotes(s) == DropTrailing(DropLeading(s, StripChars), StripChars)

\* s.replace(/[<>:"/\\|?*]/g, ' ')
ReplaceInvalid(s) ==
    [i \in 1..Len(s) |-> IF s[i] \in InvalidFileNameChars THEN " " ELSE s[i]]

\* .replace(/\s+/g, ' ')
RECURSIVE CollapseWhitespace(_)
CollapseWhitespace(s) ==
    IF s = <<>> THEN <<>>
    ELSE IF Head(s) \in Whitespace
         THEN <<" ">> \o CollapseWhitespace(DropLeading(s, Whitespace))
         ELSE <<Head(s)>> \o CollapseWhitespace(Tail(s))

removeInvalidFileNameChars(s) == Trim(CollapseWhitespace(ReplaceInvalid(s)))

\* generateTitle: title = removeInvalidFileNameChars(stripSurroundingQuotes(raw))
Sanitize(raw) == removeInvalidFileNameChars(stripSurroundingQuotes(raw))

\* ------------------------------------------------------ Template Renderer
\* the text of DEFAULT_PROMPT before and after its placeholder, as opaque chunks
\* (its en dash is written as a hyphen)
DefaultPromptHead == "Write a concise, descriptive Title Case note title based on the content below.\nRules:\n- Aim for 4-8 words\n- No quotes or trailing punctuation\n- No emojis\n- Keep it filename-safe\n\nContent:\n"
DefaultPromptTail == "\n\nReturn only the title."
DEFAULT_PROMPT ==
    <<DefaultPromptHead, "{", "{", "c", "o", "n", "t", "e", "n", "t", "}", "}",
      DefaultPromptTail>>

\* the i flag of /\{\{\s*content\s*\}\}/gi, on the letters of "content"
LowerCase(c) ==
    CASE c = "C" -> "c" [] c = "O" -> "o" [] c = "N" -> "n"
      [] c = "T" -> "t" [] c = "E" -> "e" [] OTHER -> c

ContentWord == <<"c", "o", "n", "t", "e", "n", "t">>

\* the first index >= i of s that holds no whitespace (Len(s) + 1 if none)
RECURSIVE SkipWhitespace(_, _)
SkipWhitespace(s, i) ==
    IF i <= Len(s) /\ s[i] \in Whitespace THEN SkipWhitespace(s, i + 1) ELSE i

HasAt(s, i, w) ==
    /\ i + Len(w) - 1 <= Len(s)
    /\ \A k \in 1..Len(w) : LowerCase(s[i + k - 1]) = w[k]

\* length of the match of \{\{\s*content\s*\}\} that starts at index i, 0 if none
MatchLen(s, i) ==
    IF ~HasAt(s, i, <<"{", "{">>) THEN 0
    ELSE LET a == SkipWhitespace(s, i + 2) IN
         IF ~HasAt(s, a, ContentWord) THEN 0
         ELSE LET b == SkipWhitespace(s, a + Len(ContentWord)) IN
              IF HasAt(s, b, <<"}", "}">>) THEN b + 2 - i ELSE 0

\* String.prototype.replace with a string replacement: the replacement is
\* expanded at each match ($$, $&, $`, $' are patterns; the regex has no
\* capture group, so any other $ stands for itself)
RECURSIVE GetSubstitution(_, _, _, _, _)
GetSubstitution(repl, k, str, pos, mlen) ==
    IF k > Len(repl) THEN <<>>
    ELSE IF repl[k] = "$" /\ k < Len(repl) /\ repl[k + 1] \in {"$", "&", "`", "'"}
         THEN (CASE repl[k + 1] = "$" -> <<"$">>
                 [] repl[k + 1] = "&" -> SubSeq(str, pos, pos + mlen - 1)
                 [] repl[k + 1] = "`" -> SubSeq(str, 1, pos - 1)
                 [] repl[k + 1] = "'" -> SubSeq(str, pos + mlen, Len(str)))
              \o GetSubstitution(repl, k + 2, str, pos, mlen)
         ELSE <<repl[k]>> \o GetSubstitution(repl, k + 1, str, pos, mlen)

\* tmpl.replace(/\{\{\s*content\s*\}\}/gi, content), scanning from index i
RECURSIVE ReplaceAll(_, _, _)
ReplaceAll(tmpl, i, content) ==
    IF i > Len(tmpl) THEN <<>>
    ELSE LET m == MatchLen(tmpl, i) IN
         IF m > 0
         THEN GetSubstitution(content, 1, tmpl, i, m) \o ReplaceAll(tmpl, i + m, content)
         ELSE <<tmpl[i]>> \o ReplaceAll(tmpl, i + 1, content)

\* this.settings.customPrompt?.trim() || DEFAULT_PROMPT
EffectiveTemplate(customPrompt) ==
    IF Trim(customPrompt) = <<>> THEN DEFAULT_PROMPT ELSE Trim(customPrompt)

renderPrompt(customPrompt, content) ==
    ReplaceAll(EffectiveTemplate(customPrompt), 1, content)

\* ------------------------------------------- Variant B response extraction
\* What `await res.json()` can yield for an HTTP-ok response, by shape.
\*   json        : "unparsable" (res.json() rejects), "null", "scalar" (a number,
\*                 string, boolean or array), "object"
\*   output_text : of an object: "absent", "null", "empty" (''), "blank" (' '),
\*                 "text"
\*   output      : of an object: "absent", "notArray", "emptyArray", "lastNull"
\*                 ([null]), "lastNoContent" ([{}]), "contentEmpty"
\*                 ([{content: []}]), "contentNotArray" ([{content: 'x'}]),
\*                 "textAbsent" ([{content: [{}]}]), "textNull", "text"
\*   text        : the string held where a shape says "text"
OutputTextShapes == {"absent", "null", "empty", "blank", "text"}
OutputShapes ==
    {"absent", "notArray", "emptyArray", "lastNull", "lastNoContent",
     "contentEmpty", "contentNotArray", "textAbsent", "textNull", "text"}

\* raw completions a provider returns
RawOutputs == {<<>>, <<" ", "a">>, <<"\"", "a", "\"">>, <<"?", "\"">>}

Body(j, ot, o, x) == [json |-> j, output_text |-> ot, output |-> o, text |-> x]

Bodies ==
    {Body(j, "absent", "absent", <<>>) : j \in {"unparsable", "null", "scalar"}}
    \cup {Body("object", ot, o, x) :
            ot \in OutputTextShapes, o \in OutputShapes, x \in RawOutputs}

\* one body of each kind, for the responses the plugin receives
ResponseBodies ==
    {Body(j, "absent", "absent", <<>>) : j \in {"unparsable", "null", "scalar"}}
    \cup {Body("object", "text", "absent", <<"\"", "a", "\"">>)}
    \cup {Body("object", "null", o, <<"a">>) : o \in {"lastNull", "text"}}

\* (data.output_text ?? '').toString().trim()
OutputText(data) ==
    IF data.output_text = "text" THEN Trim(data.text) ELSE <<>>

\* last?.content?.[0]?.text?.toString()?.trim() ?? ''
LastContentText(data) ==
    IF data.output = "text" THEN Trim(data.text) ELSE <<>>

\* callFireworks from `await res.json()` on: threw is TRUE when res.json()
\* rejects or reading a property of `data` throws, out is the returned string
ExtractFireworks(data) ==
    IF data.json = "unparsable" THEN [threw |-> TRUE, err |-> "syntaxError", out |-> <<>>]
    ELSE IF data.json = "null" THEN [threw |-> TRUE, err |-> "typeError", out |-> <<>>]
    ELSE IF data.json = "scalar" THEN [threw |-> FALSE, err |-> "none", out |-> <<>>]
    ELSE LET out == OutputText(data) IN
         IF out = <<>> /\ data.output \notin {"absent", "notArray", "emptyArray"}
         THEN [threw |-> FALSE, err |-> "none", out |-> LastContentText(data)]
         ELSE [threw |-> FALSE, err |-> "none", out |-> out]

\* --------------------------------------------------------------- the plugin
Files == {"f1", "f2"}
NoFile == "none"
Providers == {"openai", "fireworks"}
ApiKeys == {"", "k1"}
Models == {"", "m"}

VARIABLES
    settings,    \* this.settings: provider, openAiApiKey, fireworksApiKey, fireworksModel
    openai,      \* this.openai.apiKey, the credential of the reusable client handle
    saving,      \* saveSettings calls suspended on `await this.saveData(...)`
    tasks,       \* the pending generateTitleFromFile / generateTitle calls (a bag)
    batches,     \* the running pMap calls of the 'Generate titles' item
    statusBar,   \* the number of 'Generating title...' items on the status bar
    finished,    \* the call that ended in the last step (None if none did)
    settled,     \* the pMap call that ended in the last step (NoBatch if none did)
    probe        \* a pure function under test: its input and its results

vars ==
    <<settings, openai, saving, tasks, batches, statusBar, finished, settled, probe>>

BatchIds == 1..MaxPending
NoBatch == [files |-> <<>>, next |-> 0, state |-> "none"]
Pending == BagToSet(tasks)
Running == {b \in BatchIds : batches[b].state = "running"}
Room == MaxPending - BagCardinality(tasks) - saving - Cardinality(Running)
Add(bag, task) == bag (+) SetToBag({task})
Remove(bag, task) == bag (-) SetToBag({task})

\* the steps at which a pending generateTitle call waits
InGenerateTitle == {"create", "fetch", "json", "rename"}

\* a call that has just been made: nothing awaited yet
NewTask(f, b, i) ==
    [file |-> f, batch |-> b, item |-> i, pc |-> "read", outcome |-> "pending",
     notices |-> 0, network |-> 0, renames |-> 0, escaped |-> FALSE]

\* the catch block of generateTitle: console.error, new Notice
CatchError(task, err) ==
    [task EXCEPT !.pc = "done", !.outcome = err, !.notices = @ + 1]

\* generateTitle with loadingStatus.remove() left out
FinallyLeak(bar) == bar

\* the finally block of generateTitle: loadingStatus.remove()
Finally(bar) == bar - 1

\* generateTitle with the test of the key left out
OpenAiKeyNeverMissing(s) == FALSE

\* if (!this.settings.openAiApiKey)
OpenAiKeyMissing(s) == s.openAiApiKey = ""

\* generateTitle up to its first await: the provider branch, the configuration
\* checks of generateTitle and callFireworks, and the request
BeginGenerateTitle(task, s) ==
    IF s.provider = "fireworks"
    THEN IF s.fireworksModel = "" THEN CatchError(task, "noFireworksModel")
         ELSE IF s.fireworksApiKey = "" THEN CatchError(task, "noFireworksKey")
         ELSE [task EXCEPT !.pc = "fetch", !.network = @ + 1]
    ELSE IF OpenAiKeyMissing(s) THEN CatchError(task, "noOpenAiKey")
         ELSE [task EXCEPT !.pc = "create", !.network = @ + 1]

\* generateTitle from the sanitize steps on, given the provider's raw text
WithRawTitle(task, raw) ==
    IF Sanitize(raw) = <<>> THEN CatchError(task, "empty")
    ELSE [task EXCEPT !.pc = "rename", !.renames = @ + 1]

\* { concurrency: 1 }
concurrency == 1

\* pMap once the mapper's promise for `task` has settled: a rejection rejects the
\* pMap promise and starts nothing more (stopOnError); a fulfilment starts the
\* next element, or resolves pMap when none is left and none is running.
\* `rest` holds the other pending calls. Yields the pending calls, the batch
\* and whether pMap has started its last mapper and none is left running.
PMapNext(rest, task, B) ==
    LET b == task.batch
        last == \A u \in BagToSet(rest) : u.batch # b
    IN IF B.state = "running" /\ task.escaped
       THEN <<rest, [B EXCEPT !.state = "rejected"], last>>
       ELSE IF B.state = "running" /\ B.next <= Len(B.files)
       THEN <<Add(rest, NewTask(B.files[B.next], b, B.next)),
              [B EXCEPT !.next = @ + 1], FALSE>>
       ELSE IF B.state = "running" /\ last
       THEN <<rest, [B EXCEPT !.state = "resolved"], TRUE>>
       ELSE <<rest, B, last>>

\* the pending calls, the batches and the pMap call that has come to its end
\* (NoBatch if none has) once `task` has ended
Settle(rest, task) ==
    IF task.batch = 0 THEN <<rest, batches, NoBatch>>
    ELSE LET r == PMapNext(rest, task, batches[task.batch]) IN
         IF r[3] THEN <<r[1], [batches EXCEPT ![task.batch] = NoBatch], r[2]>>
         ELSE <<r[1], [batches EXCEPT ![task.batch] = r[2]], NoBatch>>

\* what is kept of a call that has ended
Report(task) ==
    [outcome |-> task.outcome, notices |-> task.notices,
     network |-> task.network, renames |-> task.renames, escaped |-> task.escaped]

None == [outcome |-> "none", notices |-> 0, network |-> 0, renames |-> 0,
         escaped |-> FALSE]

Idle == [fn |-> "none"]

DEFAULT_SETTINGS ==
    [provider |-> "openai", openAiApiKey |-> "", fireworksApiKey |-> "",
     fireworksModel |-> ""]

\* the plugin once onload has run
Loaded(s) ==
    /\ settings = s
    /\ openai = s.openAiApiKey
    /\ saving = 0
    /\ tasks = EmptyBag
    /\ batches = [b \in BatchIds |-> NoBatch]
    /\ statusBar = 0
    /\ finished = None
    /\ settled = NoBatch

\* loadSettings: DEFAULT_SETTINGS overlaid with whatever was saved
InitPlugin ==
    \E s \in [provider : Providers, openAiApiKey : ApiKeys,
               fireworksApiKey : ApiKeys, fireworksModel : Models] : Loaded(s)

Init == InitPlugin /\ probe = Idle

\* ------------------------------------------------------------- settings tab
\* saveSettings after `await this.saveData(...)`: this.openai.apiKey = ...
RefreshHandle(s) == s.openAiApiKey

\* an onChange handler up to the await inside saveSettings
ChangeSetting(s) ==
    /\ Room > 0
    /\ settings' = s
    /\ saving' = saving + 1
    /\ finished' = None
    /\ settled' = NoBatch
    /\ UNCHANGED <<openai, tasks, batches, statusBar, probe>>

\* each field's onChange fires when its value has changed
EditProvider(p) ==
    /\ p # settings.provider
    /\ ChangeSetting([settings EXCEPT !.provider = p])

EditOpenAiKey(k) ==
    /\ settings.provider = "openai"
    /\ k # settings.openAiApiKey
    /\ ChangeSetting([settings EXCEPT !.openAiApiKey = k])

EditFireworksKey(k) ==
    /\ settings.provider = "fireworks"
    /\ k # settings.fireworksApiKey
    /\ ChangeSetting([settings EXCEPT !.fireworksApiKey = k])

EditFireworksModel(m) ==
    /\ settings.provider = "fireworks"
    /\ m # settings.fireworksModel
    /\ ChangeSetting([settings EXCEPT !.fireworksModel = m])

\* the OpenAI model, the custom prompt, 'Use preset', 'Restore default'
EditOther == ChangeSetting(settings)

SaveDataResolve ==
    /\ saving > 0
    /\ saving' = saving - 1
    /\ openai' = RefreshHandle(settings)
    /\ finished' = None
    /\ settled' = NoBatch
    /\ UNCHANGED <<settings, tasks, batches, statusBar, probe>>

SaveDataReject ==
    /\ saving > 0
    /\ saving' = saving - 1
    /\ finished' = None
    /\ settled' = NoBatch
    /\ UNCHANGED <<settings, openai, tasks, batches, statusBar, probe>>

\* ----------------------------------------------------------------- triggers
\* generateTitle is entered by `task`, which was not pending or is replaced:
\* the indicator is added, and removed again if generateTitle has ended
Enter(rest, task) ==
    LET t1 == BeginGenerateTitle(task, settings)
        r == IF t1.pc = "done" THEN Settle(rest, t1)
             ELSE <<Add(rest, t1), batches, NoBatch>>
    IN /\ tasks' = r[1]
       /\ batches' = r[2]
       /\ settled' = r[3]
       /\ statusBar' = IF t1.pc = "done" THEN Finally(statusBar + 1) ELSE statusBar + 1
       /\ finished' = IF t1.pc = "done" THEN Report(t1) ELSE None

\* pending call `task` continues as t1 inside generateTitle
Advance(task, t1) ==
    LET rest == Remove(tasks, task)
        r == IF t1.pc = "done" THEN Settle(rest, t1)
             ELSE <<Add(rest, t1), batches, NoBatch>>
    IN /\ tasks' = r[1]
       /\ batches' = r[2]
       /\ settled' = r[3]
       /\ statusBar' = IF t1.pc = "done" THEN Finally(statusBar) ELSE statusBar
       /\ finished' = IF t1.pc = "done" THEN Report(t1) ELSE None

\* the command 'Generate title': generateTitleFromEditor
EditorCommand(af) ==
    /\ af # NoFile => Room > 0
    /\ IF af = NoFile
       THEN /\ finished' = Report([NewTask(af, 0, 0) EXCEPT
                                      !.pc = "done", !.outcome = "noActiveFile",
                                      !.escaped = TRUE])
            /\ UNCHANGED <<tasks, batches, statusBar, settled>>
       ELSE Enter(tasks, NewTask(af, 0, 0))
    /\ UNCHANGED <<settings, openai, saving, probe>>

\* the file-menu item 'Generate title': generateTitleFromFile up to cachedRead
FileMenu(f) ==
    /\ Room > 0
    /\ tasks' = Add(tasks, NewTask(f, 0, 0))
    /\ finished' = None
    /\ settled' = NoBatch
    /\ UNCHANGED <<settings, openai, saving, batches, statusBar, probe>>

\* the selections the files-menu can hand over: distinct files, at least one
Selections ==
    {fs \in UNION {[1..n -> Files] : n \in 1..Cardinality(Files)} :
        \A i, j \in 1..Len(fs) : i # j => fs[i] # fs[j]}

Min(a, b) == IF a < b THEN a ELSE b

\* the mapper started on every element at once (Promise.all over tFiles.map)
AllTasks(fs, b, k) == SetToBag({NewTask(fs[i], b, i) : i \in 1..Len(fs)})

\* the tasks pMap starts at once
RECURSIVE FirstTasks(_, _, _)
FirstTasks(fs, b, k) ==
    IF k = 0 THEN EmptyBag ELSE Add(FirstTasks(fs, b, k - 1), NewTask(fs[k], b, k))

\* the files-menu item 'Generate titles': pMap starts `concurrency` mappers
FilesMenu(fs) ==
    /\ \E b \in BatchIds : batches[b] = NoBatch
    /\ 1 + Min(concurrency, Len(fs)) <= Room
    /\ LET b == CHOOSE b \in BatchIds :
                    batches[b] = NoBatch /\ \A c \in 1..(b - 1) : batches[c] # NoBatch
           k == Min(concurrency, Len(fs))
       IN /\ tasks' = tasks (+) FirstTasks(fs, b, k)
          /\ batches' = [batches EXCEPT ![b] = [files |-> fs, next |-> k + 1,
                                                state |-> "running"]]
    /\ finished' = None
    /\ settled' = NoBatch
    /\ UNCHANGED <<settings, openai, saving, statusBar, probe>>

\* ------------------------------------------------------------ continuations
\* file.vault.cachedRead(file) resolves: generateTitle runs to its first await
ReadResolve(task) ==
    /\ task.pc = "read"
    /\ Enter(Remove(tasks, task), task)
    /\ UNCHANGED <<settings, openai, saving, probe>>

\* file.vault.cachedRead(file) rejects: generateTitleFromFile rejects
ReadReject(task) ==
    /\ task.pc = "read"
    /\ LET t1 == [task EXCEPT !.pc = "done", !.outcome = "readFailed",
                              !.escaped = TRUE]
           r == Settle(Remove(tasks, task), t1)
       IN /\ tasks' = r[1]
          /\ batches' = r[2]
          /\ settled' = r[3]
          /\ finished' = Report(t1)
    /\ UNCHANGED <<settings, openai, saving, statusBar, probe>>

\* completions.create / chat.completions.create resolves with a first choice
OpenAiRespond(task, raw) ==
    /\ task.pc = "create"
    /\ Advance(task, WithRawTitle(task, Trim(raw)))
    /\ UNCHANGED <<settings, openai, saving, probe>>

\* the SDK call or fetch rejects
ProviderReject(task) ==
    /\ task.pc \in {"create", "fetch"}
    /\ Advance(task, CatchError(task, "providerError"))
    /\ UNCHANGED <<settings, openai, saving, probe>>

\* fetch resolves; a status that is not ok throws after res.text()
FireworksRespond(task, ok) ==
    /\ task.pc = "fetch"
    /\ Advance(task, IF ok THEN [task EXCEPT !.pc = "json"]
                     ELSE CatchError(task, "providerError"))
    /\ UNCHANGED <<settings, openai, saving, probe>>

\* generateTitle once callFireworks has the body of an ok response
AfterFireworksBody(task, data) ==
    LET r == ExtractFireworks(data) IN
    IF r.threw THEN CatchError(task, r.err) ELSE WithRawTitle(task, r.out)

\* res.json() settles
FireworksBody(task, data) ==
    /\ task.pc = "json"
    /\ Advance(task, AfterFireworksBody(task, data))
    /\ UNCHANGED <<settings, openai, saving, probe>>

\* fileManager.renameFile resolves
RenameResolve(task) ==
    /\ task.pc = "rename"
    /\ Advance(task, [task EXCEPT !.pc = "done", !.outcome = "renamed"])
    /\ UNCHANGED <<settings, openai, saving, probe>>

\* fileManager.renameFile rejects
RenameReject(task) ==
    /\ task.pc = "rename"
    /\ Advance(task, CatchError(task, "renameFailed"))
    /\ UNCHANGED <<settings, openai, saving, probe>>

Next ==
    \/ \E p \in Providers : EditProvider(p)
    \/ \E k \in ApiKeys : EditOpenAiKey(k)
    \/ \E k \in ApiKeys : EditFireworksKey(k)
    \/ \E m \in Models : EditFireworksModel(m)
    \/ EditOther
    \/ SaveDataResolve
    \/ SaveDataReject
    \/ \E af \in Files \cup {NoFile} : EditorCommand(af)
    \/ \E f \in Files : FileMenu(f)
    \/ \E fs \in Selections : FilesMenu(fs)
    \/ \E task \in Pending : ReadResolve(task)
    \/ \E task \in Pending : ReadReject(task)
    \/ \E task \in Pending, raw \in RawOutputs : OpenAiRespond(task, raw)
    \/ \E task \in Pending : ProviderReject(task)
    \/ \E task \in Pending, ok \in BOOLEAN : FireworksRespond(task, ok)
    \/ \E task \in Pending, data \in ResponseBodies : FireworksBody(task, data)
    \/ \E task \in Pending : RenameResolve(task)
    \/ \E task \in Pending : RenameReject(task)

Spec == Init /\ [][Next]_vars

\* ------------------------------------------------- the sanitizer on its own
SanitizerAlphabet == {"a", " ", "'", "\"", "<"}

InitSanitize ==
    /\ Loaded(DEFAULT_SETTINGS)
    /\ \E x \in SeqsUpTo(SanitizerAlphabet, MaxLen) :
          probe = [fn |-> "sanitize", raw |-> x, once |-> <<>>, twice |-> <<>>,
                   n |-> 0]

\* the sanitize steps of generateTitle on a raw completion
SanitizeTitle ==
    /\ probe.fn = "sanitize" /\ probe.n = 0
    /\ probe' = [probe EXCEPT !.once = Sanitize(probe.raw), !.n = 1]
    /\ UNCHANGED <<settings, openai, saving, tasks, batches, statusBar, finished,
                   settled>>

\* the same steps on a title they have produced
SanitizeAgain ==
    /\ probe.fn = "sanitize" /\ probe.n = 1
    /\ probe' = [probe EXCEPT !.twice = Sanitize(probe.once), !.n = 2]
    /\ UNCHANGED <<settings, openai, saving, tasks, batches, statusBar, finished,
                   settled>>

NextSanitize == SanitizeTitle \/ SanitizeAgain

SpecSanitize == InitSanitize /\ [][NextSanitize]_vars

\* -------------------------------------------------- the renderer on its own
Placeholder == <<"{", "{", "c", "o", "n", "t", "e", "n", "t", "}", "}">>
PaddedPlaceholder ==
    <<"{", "{", " ", "C", "O", "N", "T", "E", "N", "T", " ", "}", "}">>

TemplatePieces == {Placeholder, PaddedPlaceholder, <<"x">>, <<"{">>, <<" ">>}
ContentAtoms == {<<"$">>, <<"&">>, <<"`">>, <<"'">>, <<"a">>, Placeholder}

Templates == {Flatten(ps) : ps \in SeqsUpTo(TemplatePieces, MaxTmplPieces)}
Contents == {Flatten(as) : as \in SeqsUpTo(ContentAtoms, MaxContentAtoms)}

InitRender ==
    /\ Loaded(DEFAULT_SETTINGS)
    /\ \E t \in Templates, c \in Contents :
          probe = [fn |-> "render", customPrompt |-> t, content |-> c,
                   prompt |-> <<>>, n |-> 0]

\* const prompt = this.renderPrompt(content)
RenderPrompt ==
    /\ probe.fn = "render" /\ probe.n = 0
    /\ probe' = [probe EXCEPT !.prompt = renderPrompt(probe.customPrompt,
                                                      probe.content),
                              !.n = 1]
    /\ UNCHANGED <<settings, openai, saving, tasks, batches, statusBar, finished,
                   settled>>

NextRender == RenderPrompt

SpecRender == InitRender /\ [][NextRender]_vars

\* --------------------------------------- the Variant B response on its own
InitFireworks ==
    /\ Loaded(DEFAULT_SETTINGS)
    /\ \E d \in Bodies :
          probe = [fn |-> "fireworks", data |-> d, result |-> None, n |-> 0]

\* generateTitle from `await res.json()` on, for a call waiting on the body
ReceiveBody ==
    /\ probe.fn = "fireworks" /\ probe.n = 0
    /\ probe' = [probe EXCEPT
                   !.result = Report(AfterFireworksBody(
                       [NewTask("f1", 0, 0) EXCEPT !.pc = "json", !.network = 1],
                       probe.data)),
                   !.n = 1]
    /\ UNCHANGED <<settings, openai, saving, tasks, batches, statusBar, finished,
                   settled>>

NextFireworks == ReceiveBody

SpecFireworks == InitFireworks /\ [][NextFireworks]_vars

\* =================================================================== claims
\* the pending calls that are inside generateTitle
PipelineCount(S) ==
    BagCardinality([u \in {v \in Pending : v \in S} |-> tasks[u]])
InsideGenerateTitle == {u \in Pending : u.pc \in InGenerateTitle}
OfBatch(b) == {u \in Pending : u.batch = b}

\* C1: in a bulk dispatch a failure on one document does not abort the batch:
\* whenever a pMap call comes to its end, every document of its selection has
\* been dispatched (and, none being left running, has run to its completion).
C1_BulkFailureIsolated ==
    settled # NoBatch => settled.next > Len(settled.files)

\* C2: within one bulk dispatch at most one document has a call in flight, the
\* call in flight is the one for the last document dispatched, it is for that
\* document, and documents are dispatched in sequence order.
C2_BulkOneAtATime ==
    /\ \A b \in BatchIds :
          /\ PipelineCount(OfBatch(b)) <= 1
          /\ \A u \in OfBatch(b) :
                /\ batches[b].state = "running"
                /\ u.item = batches[b].next - 1
                /\ u.file = batches[b].files[u.item]
    /\ settled.state = "resolved" => settled.next = Len(settled.files) + 1

\* C2 witness: the second document of a selection is inside generateTitle,
\* the first having finished
C2_Witness ==
    \E b \in BatchIds :
        /\ Len(batches[b].files) = 2
        /\ \E u \in OfBatch(b) : u.item = 2 /\ u.pc \in InGenerateTitle

\* C3: the status bar holds exactly one indicator for every generateTitle call
\* that has not finished: each call that finished, however it did, has removed
\* its own, and none remains once no call is pending.
C3_IndicatorRemoved ==
    /\ statusBar = PipelineCount(InsideGenerateTitle)
    /\ (tasks = EmptyBag => statusBar = 0)

\* C3 witness: a call has just ended in its catch block after the provider
\* answered, no other call is pending, and no indicator is left
C3_Witness ==
    /\ finished.outcome \in {"renameFailed", "empty", "providerError"}
    /\ finished.network = 1
    /\ tasks = EmptyBag
    /\ statusBar = 0

\* a step in which generateTitle is entered
EntersGenerateTitle ==
    \/ \E f \in Files : EditorCommand(f)
    \/ \E task \in Pending : ReadResolve(task)

\* C4: when generateTitle is entered with the OpenAI provider active and its
\* key empty, the call ends at once with the configuration error: one notice,
\* no network request, no rename, nothing thrown to the caller, and no
\* request left pending.
C4_NoKeyNoRequest ==
    [][(EntersGenerateTitle /\ settings.provider = "openai"
                            /\ settings.openAiApiKey = "")
        => /\ finished' = [outcome |-> "noOpenAiKey", notices |-> 1,
                           network |-> 0, renames |-> 0, escaped |-> FALSE]
           /\ statusBar' = statusBar
           /\ \A u \in BagToSet(tasks') : u.pc = "create" => u \in Pending]_vars

\* C4 witness: a call has just ended on the missing OpenAI key
C4_Witness ==
    /\ finished.outcome = "noOpenAiKey"
    /\ settings.provider = "openai"
    /\ settings.openAiApiKey = ""

\* C5: every call made for a document ends without passing an error on to its
\* caller, with exactly one notice if it failed and none if it renamed.
C5_OneNoticePerFailure ==
    finished.outcome \notin {"none", "noActiveFile"}
    => /\ ~finished.escaped
       /\ finished.notices = IF finished.outcome = "renamed" THEN 0 ELSE 1

\* C6: at most one generateTitle call, hence at most one rename, is in flight
\* for a document at any time.
C6_OnePipelinePerDocument ==
    \A f \in Files : PipelineCount({u \in InsideGenerateTitle : u.file = f}) <= 1

\* C7: sanitizing a sanitized title changes nothing.
C7_SanitizeIdempotent ==
    (probe.fn = "sanitize" /\ probe.n = 2) => probe.twice = probe.once

\* the template with `content` put, as it is, in place of each placeholder
RECURSIVE InsertVerbatim(_, _, _)
InsertVerbatim(tmpl, i, content) ==
    IF i > Len(tmpl) THEN <<>>
    ELSE LET m == MatchLen(tmpl, i) IN
         IF m > 0 THEN content \o InsertVerbatim(tmpl, i + m, content)
         ELSE <<tmpl[i]>> \o InsertVerbatim(tmpl, i + 1, content)

HasPlaceholder(str) == \E i \in 1..Len(str) : MatchLen(str, i) > 0

\* C8: the rendered prompt holds no placeholder, and is the template with the
\* content, unaltered, in place of every placeholder.
C8_RenderVerbatim ==
    (probe.fn = "render" /\ probe.n = 1)
    => /\ probe.prompt = InsertVerbatim(EffectiveTemplate(probe.customPrompt), 1,
                                        probe.content)
       /\ ~HasPlaceholder(probe.prompt)

\* an ok body that does not have the expected shape
Mismatched(data) ==
    \/ data.json # "object"
    \/ data.output_text # "text" /\ data.output # "text"

\* C9: an ok Variant B response whose body does not have the expected shape
\* ends the call with the empty-title error: nothing thrown by the client, one
\* notice, no rename.
C9_MalformedBodyIsEmptyTitle ==
    (probe.fn = "fireworks" /\ probe.n = 1 /\ Mismatched(probe.data))
    => /\ probe.result.outcome = "empty"
       /\ probe.result.renames = 0
       /\ probe.result.notices = 1

\* the OpenAI requests that are pending
Creating == PipelineCount({u \in Pending : u.pc = "create"})

\* C10: whenever a request to OpenAI is issued, the client handle holds the
\* key that the settings hold.
C10_RequestUsesCurrentKey ==
    [][Creating' > Creating => openai = settings.openAiApiKey]_vars

====
